---- MODULE Spec2Model ----
(***************************************************************************)
(* Model of the titration protocol driver (bee_tsp/titration/protocol.py)  *)
(* and of the StatisticalEnforcer (bee_tsp/titration/statistics.py).       *)
(*                                                                         *)
(* Numbers: seconds and tour lengths are integers; every float the code    *)
(* computes by a division is kept as an exact fraction <<num, den>> with   *)
(* den > 0 and compared by cross-multiplication (REq, RLt).                *)
(* A p-value is kept as a normalised decimal <<m, e>> = m * 10^(-e),       *)
(* m in 1..9, or PNaN.                                                     *)
(* A Python dict is a function; a missing key is a value outside DOMAIN.   *)
(***************************************************************************)
EXTENDS Integers, Sequences, FiniteSets, TLC

---------------------------------------------------------------------------
(* Bounds of the model *)

NumSeeds == 5
MaxRuns == 2
MaxN == 31
MaxLen == 3
NumResamples == 4
MaxCalls == 2
MaxDraws == 2

(* Program constants *)

MinSeeds == 5
MaxWorkers == 6
MinSamples == 30
BucketSize == 30
GeneratorSeed == 42

---------------------------------------------------------------------------
(* Exact fractions *)

Frac(a, b) == <<a, b>>
REq(p, q) == p[1] * q[2] = q[1] * p[2]
RLt(p, q) == p[1] * q[2] < q[1] * p[2]

---------------------------------------------------------------------------
(* Inputs: configurations, data files, solver behaviours *)

SeedsUpTo(n) == [i \in 1..n |-> i]

Rate034 == Frac(34, 100)
Rate0 == Frac(0, 1)

BaseCfg ==
  [ instances |-> <<"eil51">>, integrators |-> <<"lkh">>, budgets |-> <<10>>,
    seeds |-> SeedsUpTo(NumSeeds), candidate_k |-> 30, aws_hourly_rate |-> Rate034 ]

Configs ==
  { BaseCfg,
    [BaseCfg EXCEPT !.integrators = <<"eax">>],
    [BaseCfg EXCEPT !.aws_hourly_rate = Rate0, !.budgets = <<20>>],
    [BaseCfg EXCEPT !.seeds = SeedsUpTo(MinSeeds - 1)],
    [BaseCfg EXCEPT !.instances = <<"ghost99">>] }

(* data/tsplib: the instance files that exist, with their DIMENSION *)
TsplibDir == [i \in {"eil51"} |-> 51]

(* contents data/hk_bounds.json and data/optimal_values.csv can have *)
EmptyDict == [i \in {} |-> 0]
HkFiles ==
  { EmptyDict, [i \in {"eil51"} |-> 426], [i \in {"eil51"} |-> 0],
    [i \in {"eil51"} |-> -3] }
OptFiles ==
  { [exists |-> FALSE, table |-> EmptyDict],
    [exists |-> TRUE, table |-> EmptyDict],
    [exists |-> TRUE, table |-> [i \in {"eil51"} |-> 429]],
    [exists |-> TRUE, table |-> [i \in {"eil51"} |-> 0]],
    [exists |-> TRUE, table |-> [i \in {"eil51"} |-> -7]] }
MachineSpecs == [cpu |-> "x86_64", cpu_count |-> 6]

(* What the solver collaborator does for one seed: solve() returns a trace *)
(* or raises; get_last_run_diagnostics() returns a dict, an object without *)
(* the fields, None, or raises.                                            *)
Behaviour(solve, trace, msg, diag) ==
  [solve |-> solve, trace |-> trace, msg |-> msg, diag |-> diag]

(* one (elapsed_seconds, tour_length) tuple of a trace *)
Checkpoint(elapsed, length) == [py |-> "tuple", elapsed |-> elapsed, length |-> length]

MixedSolver(seed) ==
  CASE seed % 5 = 1 -> Behaviour("returns", <<Checkpoint(3, 430)>>, "", "object")
    [] seed % 5 = 2 -> Behaviour("raises", << >>, "LKH failed: core dumped", "object")
    [] seed % 5 = 3 -> Behaviour("returns", << >>, "", "object")
    [] seed % 5 = 4 -> Behaviour("returns", <<Checkpoint(7, 426)>>, "", "raises")
    [] OTHER -> Behaviour("returns", <<Checkpoint(10, 451), Checkpoint(12, 440)>>, "", "dict")

HealthySolver(seed) ==
  IF seed % 2 = 0
    THEN Behaviour("returns", <<Checkpoint(4, 429)>>, "", "none")
    ELSE Behaviour("returns", <<Checkpoint(5, 433)>>, "", "dict_empty")

Scenarios == {"mixed", "healthy"}
SolverOf(scenario, seed) ==
  IF scenario = "mixed" THEN MixedSolver(seed) ELSE HealthySolver(seed)

---------------------------------------------------------------------------
VARIABLES
  cfg,              \* TitrationConfig handed to the constructor
  hk_file,          \* data/hk_bounds.json
  opt_file,         \* data/optimal_values.csv
  scenario,         \* behaviour of the solver collaborator
  phase,            \* position of the orchestrator thread
  hk_bounds,        \* self.hk_bounds
  optimal_lengths,  \* self.optimal_lengths
  machine_info,     \* self.machine_info
  results,          \* self.results
  experiments,      \* the experiment tuples of the current run()
  futures,          \* the futures of the current run(): state and outcome
  df,               \* the DataFrame built by _finalize_results
  jsonl,            \* results/minimal_audit.jsonl, one element per line
  csv,              \* results/current_results.csv, one element per row
  runs,             \* number of run() invocations so far
  lengths_a,        \* paired_comparison: first sample
  lengths_b,        \* paired_comparison: second sample
  wilcoxon_out,     \* what scipy's wilcoxon would answer on the samples
  boot_out,         \* what the bootstrap would answer on the samples
  stat,             \* outcome of paired_comparison
  lib_calls,        \* library routines paired_comparison invoked
  deltas,           \* cliffs_delta of the samples, in both argument orders
  boot_df,          \* the DataFrame handed to the summary aggregator
  np_random,        \* state of numpy's global generator
  ci_log,           \* what the calls of analysis.bootstrap_ci returned
  summary_log,      \* what the calls of compute_summary_statistics returned
  audit_log,        \* the JSONL file analyze_results reads, one row per line
  an_phase,         \* position of analyze_results
  an_pos,           \* index of the next (instance, budget_s) group
  an_calls,         \* the row selections handed to paired_comparison
  stats_results     \* analyze_results: the list stats_results

orch_vars ==
  <<cfg, hk_file, opt_file, scenario, phase, hk_bounds, optimal_lengths,
    machine_info, results, experiments, futures, df, jsonl, csv, runs>>
enforcer_vars == <<lengths_a, lengths_b, wilcoxon_out, boot_out, stat, lib_calls, deltas>>
summary_vars == <<boot_df, np_random, ci_log, summary_log>>
analyze_vars == <<audit_log, an_phase, an_pos, an_calls, stats_results>>
stat_vars == <<enforcer_vars, summary_vars, analyze_vars>>
vars == <<orch_vars, stat_vars>>

---------------------------------------------------------------------------
(* TitrationProtocol._run_single *)

Instance(exp) == exp[1]
IntegratorName(exp) == exp[2]
Budget(exp) == exp[3]
Seed(exp) == exp[4]

(* keys of the dict _build_integrators returns *)
BuildIntegrators == {"lkh"}

(* self.optimal_lengths.get(instance, 0) *)
OptimalOf(instance) ==
  IF instance \in DOMAIN optimal_lengths THEN optimal_lengths[instance] ELSE 0

(* hk_bound is not None *)
HasHk(instance) == instance \in DOMAIN hk_bounds

(* GapDenominator without the clamp *)
GapDenominatorUnclamped(instance) ==
  IF HasHk(instance) THEN hk_bounds[instance] ELSE OptimalOf(instance)

(* GapDenominator preferring the known-optimal length to the HK bound *)
GapDenominatorOptimalFirst(instance) ==
  LET chosen == IF OptimalOf(instance) # 0 THEN OptimalOf(instance)
                ELSE IF HasHk(instance) THEN hk_bounds[instance] ELSE 0
  IN  IF chosen <= 0 THEN 1 ELSE chosen

GapDenominator(instance) ==
  LET chosen == IF HasHk(instance) THEN hk_bounds[instance] ELSE OptimalOf(instance)
  IN  IF chosen <= 0 THEN 1 ELSE chosen

BoundDeviations(instance) ==
  (IF ~HasHk(instance)
     THEN <<"HK bound not computed; using optimal = " \o ToString(OptimalOf(instance))>>
     ELSE << >>)
  \o (IF OptimalOf(instance) = 0
        THEN <<"Optimal length missing; gap calculation invalid">>
        ELSE << >>)

(* Diagnostics without the defaults for a failed or shapeless answer *)
DiagnosticsUnguarded(b) ==
  CASE b.diag = "dict" -> [cycles |-> 7, repair |-> "popmusic"]
    [] OTHER -> [cycles |-> -1, repair |-> "ERROR: diagnostics"]

(* the "SAFE diagnostics extraction" block *)
Diagnostics(b) ==
  CASE b.diag = "dict" -> [cycles |-> 7, repair |-> "popmusic"]
    [] b.diag = "dict_empty" -> [cycles |-> 0, repair |-> "lkh"]
    [] b.diag = "object" -> [cycles |-> 0, repair |-> "lkh"]
    [] b.diag = "none" -> [cycles |-> 0, repair |-> "lkh"]
    [] OTHER -> [cycles |-> 0, repair |-> "lkh"]

(* ComputeCost with the rate taken per minute *)
ComputeCostPerMinute(seconds) ==
  Frac(seconds * cfg.aws_hourly_rate[1], 60 * cfg.aws_hourly_rate[2])

ComputeCost(seconds) ==
  Frac(seconds * cfg.aws_hourly_rate[1], 3600 * cfg.aws_hourly_rate[2])

(* SuccessRecord with the task probing the machine itself *)
SuccessRecordProbesMachine(exp, b) ==
  LET length == IF b.trace # << >> THEN b.trace[1].length ELSE -1
      elapsed == IF b.trace # << >> THEN b.trace[1].elapsed ELSE Budget(exp)
      den == GapDenominator(Instance(exp))
      d == Diagnostics(b)
  IN  [ instance |-> Instance(exp), integrator |-> IntegratorName(exp),
        budget_s |-> Budget(exp), seed |-> Seed(exp),
        best_length |-> length, time_to_best_s |-> elapsed,
        final_gap_pct |-> Frac((length - den) * 100, den),
        hk_bound |-> IF HasHk(Instance(exp)) /\ hk_bounds[Instance(exp)] # 0
                       THEN hk_bounds[Instance(exp)] ELSE OptimalOf(Instance(exp)),
        wall_time_s |-> elapsed,
        machine_info |-> [machine_info EXCEPT !.cpu_count = Seed(exp)],
        compute_cost_usd |-> ComputeCost(elapsed), raw_trace |-> b.trace,
        deviations |-> BoundDeviations(Instance(exp)),
        cycles_explored |-> d.cycles, repair_path |-> d.repair ]

(* the record built after solver.solve returned *)
SuccessRecord(exp, b) ==
  LET length == IF b.trace # << >> THEN b.trace[1].length ELSE -1
      elapsed == IF b.trace # << >> THEN b.trace[1].elapsed ELSE Budget(exp)
      den == GapDenominator(Instance(exp))
      d == Diagnostics(b)
  IN  [ instance |-> Instance(exp), integrator |-> IntegratorName(exp),
        budget_s |-> Budget(exp), seed |-> Seed(exp),
        best_length |-> length, time_to_best_s |-> elapsed,
        final_gap_pct |-> Frac((length - den) * 100, den),
        hk_bound |-> IF HasHk(Instance(exp)) /\ hk_bounds[Instance(exp)] # 0
                       THEN hk_bounds[Instance(exp)] ELSE OptimalOf(Instance(exp)),
        wall_time_s |-> elapsed, machine_info |-> machine_info,
        compute_cost_usd |-> ComputeCost(elapsed), raw_trace |-> b.trace,
        deviations |-> BoundDeviations(Instance(exp)),
        cycles_explored |-> d.cycles, repair_path |-> d.repair ]

(* FailureRecord with the bug of not recording the error text *)
FailureRecordDropsError(exp, e) ==
  [ instance |-> Instance(exp), integrator |-> IntegratorName(exp),
    budget_s |-> Budget(exp), seed |-> Seed(exp),
    best_length |-> -1, time_to_best_s |-> Budget(exp),
    final_gap_pct |-> Frac(-1, 1),
    hk_bound |-> IF HasHk(Instance(exp)) THEN hk_bounds[Instance(exp)] ELSE 0,
    wall_time_s |-> Budget(exp), machine_info |-> machine_info,
    compute_cost_usd |-> ComputeCost(Budget(exp)), raw_trace |-> << >>,
    deviations |-> BoundDeviations(Instance(exp)),
    cycles_explored |-> 0, repair_path |-> "ERROR: " \o e ]

(* the record built by the except branch, e being the exception's message *)
FailureRecord(exp, e) ==
  [ instance |-> Instance(exp), integrator |-> IntegratorName(exp),
    budget_s |-> Budget(exp), seed |-> Seed(exp),
    best_length |-> -1, time_to_best_s |-> Budget(exp),
    final_gap_pct |-> Frac(-1, 1),
    hk_bound |-> IF HasHk(Instance(exp)) THEN hk_bounds[Instance(exp)] ELSE 0,
    wall_time_s |-> Budget(exp), machine_info |-> machine_info,
    compute_cost_usd |-> ComputeCost(Budget(exp)), raw_trace |-> << >>,
    deviations |-> BoundDeviations(Instance(exp)) \o <<"Runtime error: " \o e>>,
    cycles_explored |-> 0, repair_path |-> "ERROR: " \o e ]

(* What a task's future holds when it is done: the record _run_single     *)
(* returned, or the exception that left it.                                *)
Returned(r) == [exc |-> "", rec |-> <<r>>]
Raised(e) == [exc |-> e, rec |-> << >>]

RunSingle(exp) ==
  IF IntegratorName(exp) \notin BuildIntegrators
    THEN Raised("KeyError: " \o IntegratorName(exp))
    ELSE LET b == SolverOf(scenario, Seed(exp))
         IN  IF b.solve = "raises"
               THEN Returned(FailureRecord(exp, b.msg))
               ELSE Returned(SuccessRecord(exp, b))

---------------------------------------------------------------------------
(* TitrationProtocol.__init__ *)

SeqToSet(q) == {q[i] : i \in DOMAIN q}

(* ValidateCfg with the seed-count test left out *)
ValidateCfgSkipsSeeds(c) ==
  \A i \in DOMAIN c.instances : c.instances[i] \in DOMAIN TsplibDir

ValidateCfg(c) ==
  /\ Len(c.seeds) >= MinSeeds
  /\ \A i \in DOMAIN c.instances : c.instances[i] \in DOMAIN TsplibDir

LoadOptimalLengths(file) ==
  IF ~file.exists
    THEN [i \in {"eil51", "eil76", "berlin52", "kroA100"} |->
            CASE i = "eil51" -> 429 [] i = "eil76" -> 538
              [] i = "berlin52" -> 7542 [] OTHER -> 21282]
    ELSE file.table

Construct ==
  /\ phase = "new"
  /\ IF ValidateCfg(cfg)
       THEN /\ phase' = "ready"
            /\ machine_info' = MachineSpecs
            /\ hk_bounds' = hk_file
            /\ optimal_lengths' = LoadOptimalLengths(opt_file)
            /\ results' = << >>
       ELSE /\ phase' = "config_error"
            /\ UNCHANGED <<machine_info, hk_bounds, optimal_lengths, results>>
  /\ UNCHANGED <<cfg, hk_file, opt_file, scenario, experiments, futures, df,
                 jsonl, csv, runs, stat_vars>>

---------------------------------------------------------------------------
(* TitrationProtocol.run *)

(* Experiments with an off-by-one in the seed loop *)
ExperimentsSeedSlip(c) ==
  LET nG == Len(c.integrators)
      nB == Len(c.budgets)
      nS == Len(c.seeds)
      total == Len(c.instances) * nG * nB * nS
  IN  [k \in 1..total |->
         << c.instances[((k - 1) \div (nG * nB * nS)) + 1],
            c.integrators[(((k - 1) \div (nB * nS)) % nG) + 1],
            c.budgets[(((k - 1) \div nS) % nB) + 1],
            c.seeds[((k - 1) % (nS - 1)) + 1] >>]

(* the nested loops that build the experiment tuples *)
Experiments(c) ==
  LET nG == Len(c.integrators)
      nB == Len(c.budgets)
      nS == Len(c.seeds)
      total == Len(c.instances) * nG * nB * nS
  IN  [k \in 1..total |->
         << c.instances[((k - 1) \div (nG * nB * nS)) + 1],
            c.integrators[(((k - 1) \div (nB * nS)) % nG) + 1],
            c.budgets[(((k - 1) \div nS) % nB) + 1],
            c.seeds[((k - 1) % nS) + 1] >>]

TotalRuns(c) ==
  Len(c.instances) * Len(c.integrators) * Len(c.budgets) * Len(c.seeds)

Queued == [st |-> "queued", out |-> << >>]
Tasks == DOMAIN futures
InState(s) == {i \in Tasks : futures[i].st = s}

(* executor.submit for every experiment *)
Dispatch ==
  /\ runs < MaxRuns
  /\ runs' = runs + 1
  /\ experiments' = Experiments(cfg)
  /\ futures' = [k \in 1..TotalRuns(cfg) |-> Queued]
  /\ phase' = "collecting"
  /\ UNCHANGED <<cfg, hk_file, opt_file, scenario, hk_bounds, optimal_lengths,
                 machine_info, results, df, jsonl, csv, stat_vars>>

StartRun ==
  /\ phase = "ready"
  /\ Dispatch

(* WorkerFree for a pool without a width *)
WorkerAlwaysFree == TRUE

(* a pool worker takes the next work item off the queue *)
WorkerFree == Cardinality(InState("running")) < MaxWorkers
Start(i) ==
  /\ phase \in {"collecting", "aborting"}
  /\ futures[i].st = "queued"
  /\ \A j \in Tasks : j < i => futures[j].st # "queued"
  /\ WorkerFree
  /\ futures' = [futures EXCEPT ![i].st = "running"]
  /\ UNCHANGED <<cfg, hk_file, opt_file, scenario, phase, hk_bounds,
                 optimal_lengths, machine_info, results, experiments, df,
                 jsonl, csv, runs, stat_vars>>

(* the worker runs _run_single to its end; the future becomes done *)
Finish(i) ==
  /\ phase \in {"collecting", "aborting"}
  /\ futures[i].st = "running"
  /\ futures' = [futures EXCEPT ![i] = [st |-> "done", out |-> <<RunSingle(experiments[i])>>]]
  /\ UNCHANGED <<cfg, hk_file, opt_file, scenario, phase, hk_bounds,
                 optimal_lengths, machine_info, results, experiments, df,
                 jsonl, csv, runs, stat_vars>>

(* as_completed yields a done future; future.result() returns the record, *)
(* which is appended, or re-raises what left the task                     *)
Collect(i) ==
  /\ phase = "collecting"
  /\ futures[i].st = "done"
  /\ futures' = [futures EXCEPT ![i].st = "collected"]
  /\ LET o == futures[i].out[1]
     IN  IF o.exc = ""
           THEN /\ results' = Append(results, o.rec[1])
                /\ phase' = phase
           ELSE /\ results' = results
                /\ phase' = "aborting"
  /\ UNCHANGED <<cfg, hk_file, opt_file, scenario, hk_bounds, optimal_lengths,
                 machine_info, experiments, df, jsonl, csv, runs, stat_vars>>

(* AllCollected with the bug of leaving the collection loop early *)
SomeCollected == \E i \in DOMAIN futures : futures[i].st = "collected"

(* the pool has drained: no work item is queued or running *)
PoolDrained == InState("queued") = {} /\ InState("running") = {}
AllCollected == \A i \in Tasks : futures[i].st = "collected"

(* the exception leaves the with block once shutdown(wait=True) returns *)
Abort ==
  /\ phase = "aborting"
  /\ PoolDrained
  /\ phase' = "aborted"
  /\ UNCHANGED <<cfg, hk_file, opt_file, scenario, hk_bounds, optimal_lengths,
                 machine_info, results, experiments, futures, df, jsonl, csv,
                 runs, stat_vars>>

InstanceMetadata == [i \in SeqToSet(cfg.instances) |-> TsplibDir[i]]

FinalizeResults ==
  [k \in 1..Len(results) |->
     [n |-> InstanceMetadata[results[k].instance]] @@ results[k]]

Finalize ==
  /\ phase = "collecting"
  /\ AllCollected
  /\ PoolDrained
  /\ df' = FinalizeResults
  /\ phase' = "finalized"
  /\ UNCHANGED <<cfg, hk_file, opt_file, scenario, hk_bounds, optimal_lengths,
                 machine_info, results, experiments, futures, jsonl, csv,
                 runs, stat_vars>>

(* open(jsonl_path, "w") *)
OpenLog ==
  /\ phase = "finalized"
  /\ jsonl' = << >>
  /\ phase' = "writing"
  /\ UNCHANGED <<cfg, hk_file, opt_file, scenario, hk_bounds, optimal_lengths,
                 machine_info, results, experiments, futures, df, csv, runs,
                 stat_vars>>

(* json.dumps(result.__dict__): tuples are written as JSON arrays *)
Dumps(r) ==
  [r EXCEPT !.raw_trace = [k \in DOMAIN r.raw_trace |->
                              [r.raw_trace[k] EXCEPT !.py = "list"]]]

(* json.loads(line): a JSON array is read back as a list *)
Loads(line) ==
  [line EXCEPT !.raw_trace = [k \in DOMAIN line.raw_trace |->
                                 [line.raw_trace[k] EXCEPT !.py = "list"]]]

WriteLine ==
  /\ phase = "writing"
  /\ Len(jsonl) < Len(results)
  /\ jsonl' = Append(jsonl, Dumps(results[Len(jsonl) + 1]))
  /\ UNCHANGED <<cfg, hk_file, opt_file, scenario, phase, hk_bounds,
                 optimal_lengths, machine_info, results, experiments, futures,
                 df, csv, runs, stat_vars>>

(* the log is closed, df.to_csv writes the table, run() returns df *)
WriteCsv ==
  /\ phase = "writing"
  /\ Len(jsonl) = Len(results)
  /\ csv' = df
  /\ phase' = "done"
  /\ UNCHANGED <<cfg, hk_file, opt_file, scenario, hk_bounds, optimal_lengths,
                 machine_info, results, experiments, futures, df, jsonl, runs,
                 stat_vars>>

(* run() is called again on the same object *)
RunAgain ==
  /\ phase \in {"done", "aborted"}
  /\ Dispatch

(* the script is started again: a new TitrationProtocol is about to be *)
(* built from a configuration, the files of the earlier run still on disk *)
NewOrchestrator ==
  /\ phase \in {"done", "aborted"}
  /\ runs < MaxRuns
  /\ phase' = "new"
  /\ cfg' \in Configs
  /\ UNCHANGED <<hk_file, opt_file, scenario, hk_bounds, optimal_lengths,
                 machine_info, results, experiments, futures, df, jsonl, csv,
                 runs, stat_vars>>

---------------------------------------------------------------------------
(* StatisticalEnforcer *)

Abs(x) == IF x < 0 THEN -x ELSE x
Min(S) == CHOOSE x \in S : \A y \in S : x <= y
Max(S) == CHOOSE x \in S : \A y \in S : x >= y

(* p-values: m * 10^(-e) with m in 1..9, or NaN *)
PValue(m, e) == [kind |-> "p", m |-> m, e |-> e]
PNaN == [kind |-> "nan", m |-> 0, e |-> 0]
POne == PValue(1, 0)
PSentinel == PValue(1, 15)
PThreshold == PValue(1, 3)
(* p < q as floats; every comparison with NaN is false *)
PLess(p, q) ==
  /\ p.kind = "p" /\ q.kind = "p"
  /\ (p.e > q.e \/ (p.e = q.e /\ p.m < q.m))

(* abs(delta) > 0.1 *)
EffectMeaningful(delta) == 10 * Abs(delta[1]) > delta[2]

(* cliffs_delta with a tie counted as dominance of x *)
cliffs_delta_ties(x, y) ==
  LET pairs == (DOMAIN x) \X (DOMAIN y)
      n_less == Cardinality({q \in pairs : x[q[1]] <= y[q[2]]})
      n_greater == Cardinality({q \in pairs : x[q[1]] > y[q[2]]})
  IN  Frac(n_less - n_greater, Len(x) * Len(y))

cliffs_delta(x, y) ==
  LET pairs == (DOMAIN x) \X (DOMAIN y)
      n_less == Cardinality({q \in pairs : x[q[1]] < y[q[2]]})
      n_greater == Cardinality({q \in pairs : x[q[1]] > y[q[2]]})
  IN  Frac(n_less - n_greater, Len(x) * Len(y))

StatisticalResult(instance, ia, ib, n, p, delta, lo, hi, compliant) ==
  [ instance |-> instance, integrator_a |-> ia, integrator_b |-> ib,
    n_samples |-> n, p_value |-> p, effect_size_cliffs_delta |-> delta,
    ci_95_lower |-> lo, ci_95_upper |-> hi, protocol_compliant |-> compliant ]

(* What paired_comparison hands back: a result or an exception, and the   *)
(* library routines it ran on the way.  w is the answer of wilcoxon on    *)
(* the two samples, boot the answer of bootstrap_ci.                      *)
Outcome(exc, res, calls) == [exc |-> exc, res |-> res, calls |-> calls]

(* NoEffectResult with the bug of reporting the separation verdict *)
NoEffectResultSignificant(instance, ia, ib, n) ==
  StatisticalResult(instance, ia, ib, n, PSentinel, Frac(0, 1), 0, 0, TRUE)

(* the "no effect" result of the zero-variance branch *)
NoEffectResult(instance, ia, ib, n) ==
  StatisticalResult(instance, ia, ib, n, POne, Frac(0, 1), 0, 0, FALSE)

(* PerfectSeparationResult with the sample-size gate applied to it *)
PerfectSeparationResultGated(instance, ia, ib, n) ==
  StatisticalResult(instance, ia, ib, n, PSentinel, Frac(1, 1), 0, 0, n >= MinSamples)

(* the "perfect separation" result of the zero-variance branch *)
PerfectSeparationResult(instance, ia, ib, n) ==
  StatisticalResult(instance, ia, ib, n, PSentinel, Frac(1, 1), 0, 0, TRUE)

(* Compliant with the bug of not testing the effect size *)
CompliantIgnoresEffect(n, p, delta) ==
  n >= MinSamples /\ PLess(p, PThreshold)

Compliant(n, p, delta) ==
  n >= MinSamples /\ PLess(p, PThreshold) /\ EffectMeaningful(delta)

paired_comparison(a, b, instance, ia, ib, w, boot) ==
  LET n == Len(a)
      distinct_a == Cardinality(SeqToSet(a))
      distinct_b == Cardinality(SeqToSet(b))
  IN  IF distinct_a = 1 \/ distinct_b = 1
        THEN IF distinct_a = 1 /\ distinct_b = 1 /\ a[1] = b[1]
               THEN Outcome("", <<NoEffectResult(instance, ia, ib, n)>>, {})
               ELSE Outcome("", <<PerfectSeparationResult(instance, ia, ib, n)>>, {})
        ELSE IF w.kind = "raises"
               THEN Outcome("ValueError", << >>, {"wilcoxon"})
               ELSE LET delta == cliffs_delta(a, b)
                    IN  Outcome("", <<StatisticalResult(instance, ia, ib, n, w, delta,
                                         boot[1], boot[2], Compliant(n, w, delta))>>,
                                {"wilcoxon", "cliffs_delta", "bootstrap_ci"})

(* scipy.stats.wilcoxon(a, b): undefined when every difference is zero    *)
(* (an error or NaN, by scipy version), a p-value otherwise               *)
WilcoxonAnswers(a, b) ==
  IF Len(a) = Len(b) /\ \A i \in DOMAIN a : a[i] = b[i]
    THEN {[kind |-> "raises", m |-> 0, e |-> 0], PNaN}
    ELSE {PValue(5, 2), PThreshold, PValue(1, 4)}

(* bootstrap_ci(a, b): percentiles of resampled mean differences *)
BootstrapAnswers(a, b) ==
  LET lo == Min(SeqToSet(a)) - Max(SeqToSet(b))
      hi == Max(SeqToSet(a)) - Min(SeqToSet(b))
  IN  {<<lo, hi>>, <<hi, hi>>}

(* samples of n seeds: k runs of length lo, then n - k runs of length hi *)
Block(n, k, lo, hi) == [i \in 1..n |-> IF i <= k THEN lo ELSE hi]
SamplesA(n) == {Block(n, k, 5, 9) : k \in 0..n}
SamplesB(n) == {Block(n, 0, 5, 9), Block(n, n, 5, 9), Block(n, n \div 2, 5, 9),
                Block(n, n \div 2, 6, 8)}

Compare ==
  /\ stat = << >>
  /\ lengths_a # << >>
  /\ LET out == paired_comparison(lengths_a, lengths_b, "eil51_lkh_vs_EdgeRand",
                                  "lkh_10s", "EdgeRand_10s", wilcoxon_out, boot_out)
     IN  /\ stat' = <<[exc |-> out.exc, res |-> out.res]>>
         /\ lib_calls' = out.calls
  /\ UNCHANGED <<orch_vars, lengths_a, lengths_b, wilcoxon_out, boot_out,
                 deltas, summary_vars, analyze_vars>>

---------------------------------------------------------------------------
---------------------------------------------------------------------------
(* analysis.py: the summary aggregator.  Metric values are integers here; *)
(* a median is the fraction (twice the median) / 2, a percentile the      *)
(* linear interpolation numpy computes, as a fraction over 2000.          *)

(* a sequence given by a rule, with its elements computed once *)
List(f) == SubSeq(f, 1, Len(f))

(* one draw of a generator: its next state *)
Step(s) == (5 * s + 3) % 32
(* the states a generator goes through in count draws from state s0 *)
Stream(s0, count) ==
  LET f[k \in 0..count] == IF k = 0 THEN s0 ELSE Step(f[k - 1])
  IN  List([k \in 1..count |-> f[k]])

(* default_rng reading the state of numpy's global generator *)
default_rng_global(seed) == np_random

(* np.random.default_rng(seed): a new generator, its state set by the seed *)
default_rng(seed) == seed % 32

(* ascending sort, as np.median and np.percentile do internally *)
Ascending(q) ==
  LET rank(i) == 1 + Cardinality({j \in DOMAIN q :
                                    q[j] < q[i] \/ (q[j] = q[i] /\ j < i)})
  IN  List([r \in DOMAIN q |-> q[CHOOSE i \in DOMAIN q : rank(i) = r]])

(* twice np.median(q), q non-empty *)
Median2(q) ==
  LET s == Ascending(q)
      n == Len(q)
  IN  IF n % 2 = 1 THEN 2 * s[(n + 1) \div 2] ELSE s[n \div 2] + s[(n \div 2) + 1]
median(q) == Frac(Median2(q), 2)

(* np.percentile(estimates, permille / 10) of doubled estimates *)
Percentile(est2, permille) ==
  LET s == Ascending(est2)
      pos == (Len(s) - 1) * permille
      k == (pos \div 1000) + 1
      f == pos % 1000
  IN  Frac(s[k] * (1000 - f) + (IF f = 0 THEN 0 ELSE s[k + 1] * f), 2000)

(* analysis.bootstrap_ci(data, n_resamples, 0.95) *)
bootstrap_ci(data) ==
  IF Len(data) < 2
    THEN IF Len(data) = 1
           THEN <<Frac(data[1], 1), Frac(data[1], 1)>>
           ELSE <<Frac(0, 1), Frac(0, 1)>>
    ELSE LET n == Len(data)
             states == Stream(default_rng(GeneratorSeed), NumResamples * n)
             sample(r) == List([i \in 1..n |-> data[(states[(r - 1) * n + i] % n) + 1]])
             estimates == List([r \in 1..NumResamples |-> Median2(sample(r))])
         IN  <<Percentile(estimates, 25), Percentile(estimates, 975)>>

(* Series.unique(): the distinct values in order of first appearance *)
Unique(q) ==
  LET firsts == {i \in DOMAIN q : \A j \in 1..(i - 1) : q[j] # q[i]}
      nth(k) == CHOOSE i \in firsts : Cardinality({j \in firsts : j < i}) = k - 1
  IN  [k \in 1..Cardinality(firsts) |-> q[nth(k)]]
Column(frame, name) == List([k \in DOMAIN frame |-> frame[k][name]])

(* SummaryRow with the sentinel records removed before aggregating *)
SummaryRowDropsSentinels(instance, integrator, int_data) ==
  LET kept == SelectSeq(int_data, LAMBDA r : r.final_gap_pct # -1)
      gaps == Column(kept, "final_gap_pct")
      costs == Column(kept, "compute_cost_usd")
  IN  [ instance |-> instance, integrator |-> integrator,
        median_gap |-> median(gaps), gap_ci_95 |-> bootstrap_ci(gaps),
        median_cost |-> median(costs), cost_ci_95 |-> bootstrap_ci(costs),
        n_runs |-> Len(gaps) ]

SummaryRow(instance, integrator, int_data) ==
  LET gaps == Column(int_data, "final_gap_pct")
      costs == Column(int_data, "compute_cost_usd")
  IN  [ instance |-> instance, integrator |-> integrator,
        median_gap |-> median(gaps), gap_ci_95 |-> bootstrap_ci(gaps),
        median_cost |-> median(costs), cost_ci_95 |-> bootstrap_ci(costs),
        n_runs |-> Len(gaps) ]

compute_summary_statistics(frame) ==
  LET instances == Unique(Column(frame, "instance"))
      RowsOf(instance) ==
        LET inst_data == SelectSeq(frame, LAMBDA r : r.instance = instance)
            integrators == Unique(Column(inst_data, "integrator"))
        IN  [g \in DOMAIN integrators |->
               SummaryRow(instance, integrators[g],
                          SelectSeq(inst_data, LAMBDA r : r.integrator = integrators[g]))]
      acc[k \in 0..Len(instances)] ==
        IF k = 0 THEN << >> ELSE acc[k - 1] \o RowsOf(instances[k])
  IN  acc[Len(instances)]

(* DataFrames the aggregator is given *)
Row(instance, integrator, gap, cost) ==
  [instance |-> instance, integrator |-> integrator,
   final_gap_pct |-> gap, compute_cost_usd |-> cost]
RowAt(instance, integrator, budget, seed, gap, cost) ==
  Row(instance, integrator, gap, cost) @@ [budget_s |-> budget, seed |-> seed]
SummaryInputs ==
  { <<Row("eil51", "lkh", 2, 10), Row("eil51", "lkh", 5, 12), Row("eil51", "lkh", -1, 20),
      Row("eil51", "lkh", 3, 11), Row("eil51", "lkh", 8, 14)>>,
    <<Row("eil51", "lkh", 2, 10), Row("berlin52", "lkh", 7, 30),
      Row("eil51", "EdgeRand", 9, 4), Row("eil51", "lkh", 4, 12),
      Row("berlin52", "lkh", 1, 31), Row("eil51", "EdgeRand", 6, 5),
      Row("berlin52", "lkh", -1, 40)>>,
    <<Row("berlin52", "EdgeRand", 6, 5), Row("eil51", "lkh", 3, 9),
      Row("eil51", "lkh", -1, 20), Row("eil51", "lkh", -1, 20)>>,
    <<Row("eil51", "lkh", 4, 10), Row("eil51", "lkh", 4, 10)>>,
    <<RowAt("eil51", "lkh", 10, 1, 6, 10), RowAt("eil51", "lkh", 20, 1, 2, 19),
      RowAt("eil51", "lkh", 10, 2, -1, 10), RowAt("eil51", "lkh", 20, 2, 1, 17)>> }

(* one call of analysis.bootstrap_ci on the gap column *)
BootstrapCI ==
  /\ boot_df # << >>
  /\ Len(ci_log) < MaxCalls
  /\ ci_log' = Append(ci_log, [at |-> np_random,
                               ci |-> bootstrap_ci(Column(boot_df, "final_gap_pct"))])
  /\ UNCHANGED <<orch_vars, enforcer_vars, boot_df, np_random, summary_log,
                 analyze_vars>>

(* one call of compute_summary_statistics on the DataFrame *)
Summarize ==
  /\ boot_df # << >>
  /\ Len(summary_log) < MaxCalls
  /\ summary_log' = Append(summary_log, [at |-> np_random,
                                         rows |-> compute_summary_statistics(boot_df)])
  /\ UNCHANGED <<orch_vars, enforcer_vars, boot_df, np_random, ci_log,
                 analyze_vars>>

(* some other code draws from numpy's global generator, as              *)
(* StatisticalEnforcer.bootstrap_ci does with np.random.choice           *)
AmbientDraw ==
  /\ boot_df # << >>
  /\ np_random \in {0} \cup {Stream(0, MaxDraws)[k] : k \in 1..(MaxDraws - 1)}
  /\ np_random' = Step(np_random)
  /\ UNCHANGED <<orch_vars, enforcer_vars, boot_df, ci_log, summary_log,
                 analyze_vars>>

(* cliffs_delta called on two samples in both argument orders, and on the *)
(* first sample against itself                                            *)
CliffsDelta ==
  /\ deltas = << >>
  /\ lengths_a # << >> /\ lengths_b # << >>
  /\ deltas' = <<[xy |-> cliffs_delta(lengths_a, lengths_b),
                  yx |-> cliffs_delta(lengths_b, lengths_a),
                  xx |-> cliffs_delta(lengths_a, lengths_a)]>>
  /\ UNCHANGED <<orch_vars, lengths_a, lengths_b, wilcoxon_out, boot_out, stat,
                 lib_calls, summary_vars, analyze_vars>>

(* non-empty samples of up to MaxLen tour lengths, ties included *)
Lengths == {5, 7, 9}
SamplesUpTo(n) == UNION {[1..k -> Lengths] : k \in 1..n}

---------------------------------------------------------------------------
(* statistics.py: analyze_results *)

(* a parsed log line, with the columns analyze_results reads *)
AuditRow(instance, integrator, budget, seed, length) ==
  [instance |-> instance, integrator |-> integrator, budget_s |-> budget,
   seed |-> seed, best_length |-> length, wall_time_s |-> budget]

(* string order of the instance names in use *)
InstanceRank(name) ==
  CASE name = "berlin52" -> 1 [] name = "eil51" -> 2 [] OTHER -> 3

(* df.groupby(["instance", "budget_s"]): the distinct keys, sorted *)
GroupKeys(frame) ==
  LET keys == {<<frame[k].instance, frame[k].budget_s>> : k \in DOMAIN frame}
      Before(x, y) ==
        \/ InstanceRank(x[1]) < InstanceRank(y[1])
        \/ (x[1] = y[1] /\ x[2] < y[2])
      pos(x) == 1 + Cardinality({y \in keys : Before(y, x)})
  IN  [q \in 1..Cardinality(keys) |-> CHOOSE x \in keys : pos(x) = q]

(* the rows of one group, and of one integrator within it, in file order *)
GroupOf(frame, key) ==
  SelectSeq(frame, LAMBDA r : r.instance = key[1] /\ r.budget_s = key[2])
RowsOfIntegrator(group, integrator) ==
  SelectSeq(group, LAMBDA r : r.integrator = integrator)

(* BucketQualifies accepting any two equally long lists of 30 or more *)
BucketQualifiesAtLeast(lkh, er) ==
  Len(lkh) = Len(er) /\ Len(lkh) >= BucketSize

(* len(seeds_lkh) == len(seeds_er) == 30 *)
BucketQualifies(lkh, er) ==
  Len(lkh) = BucketSize /\ Len(er) = BucketSize

(* the file is opened and parsed; an empty file is refused *)
LoadLog ==
  /\ an_phase = "idle"
  /\ an_phase' = IF audit_log = << >> THEN "raised" ELSE "grouping"
  /\ an_pos' = 1
  /\ UNCHANGED <<orch_vars, enforcer_vars, summary_vars, audit_log, an_calls,
                 stats_results>>

(* one iteration of the loop over the groups *)
AnalyzeBucket ==
  /\ an_phase = "grouping"
  /\ an_pos <= Len(GroupKeys(audit_log))
  /\ LET key == GroupKeys(audit_log)[an_pos]
         group == GroupOf(audit_log, key)
         rows_lkh == RowsOfIntegrator(group, "lkh")
         rows_er == RowsOfIntegrator(group, "EdgeRand")
         seeds_lkh == Column(rows_lkh, "best_length")
         seeds_er == Column(rows_er, "best_length")
     IN  IF BucketQualifies(seeds_lkh, seeds_er)
           THEN \E w \in WilcoxonAnswers(seeds_lkh, seeds_er) :
                \E boot \in BootstrapAnswers(seeds_lkh, seeds_er) :
                  LET out == paired_comparison(seeds_lkh, seeds_er,
                               key[1] \o "_lkh_vs_EdgeRand",
                               "lkh_" \o ToString(key[2]) \o "s",
                               "EdgeRand_" \o ToString(key[2]) \o "s", w, boot)
                  IN  /\ an_calls' = Append(an_calls,
                            [instance |-> key[1], budget_s |-> key[2],
                             rows_a |-> rows_lkh, rows_b |-> rows_er])
                      /\ IF out.exc = ""
                           THEN /\ stats_results' = Append(stats_results, out.res[1])
                                /\ an_pos' = an_pos + 1
                                /\ an_phase' = an_phase
                           ELSE /\ an_phase' = "raised"
                                /\ UNCHANGED <<stats_results, an_pos>>
           ELSE /\ an_pos' = an_pos + 1
                /\ UNCHANGED <<an_phase, an_calls, stats_results>>
  /\ UNCHANGED <<orch_vars, enforcer_vars, summary_vars, audit_log>>

(* the report is printed and stats_results returned *)
Report ==
  /\ an_phase = "grouping"
  /\ an_pos > Len(GroupKeys(audit_log))
  /\ an_phase' = "returned"
  /\ UNCHANGED <<orch_vars, enforcer_vars, summary_vars, audit_log, an_pos,
                 an_calls, stats_results>>

(* Log files: rows of eil51 for two integrators and the seeds given *)
SeedRange(lo, hi) == [i \in 1..(hi - lo + 1) |-> lo + i - 1]
Without(q, j) == [i \in 1..(Len(q) - 1) |-> IF i < j THEN q[i] ELSE q[i + 1]]
Swapped(q, k) ==
  [i \in DOMAIN q |-> IF i = k THEN q[k + 1] ELSE IF i = k + 1 THEN q[k] ELSE q[i]]
TourLength(integrator, seed) ==
  IF seed % 11 = 0 THEN -1
  ELSE IF integrator = "lkh" THEN 426 + (seed % 3) ELSE 431 + (seed % 4)
RowsFor(integrator, budget, seeds) ==
  List([i \in DOMAIN seeds |->
          AuditRow("eil51", integrator, budget, seeds[i], TourLength(integrator, seeds[i]))])
(* written one integrator after the other, n_a and n_b rows *)
Sequential(budget, n_a, n_b) ==
  RowsFor("lkh", budget, SeedRange(1, n_a)) \o RowsFor("EdgeRand", budget, SeedRange(1, n_b))
(* the second integrator's rows in a completion order: two neighbours swapped *)
CompletionOrder(k) ==
  RowsFor("lkh", 10, SeedRange(1, BucketSize))
    \o RowsFor("EdgeRand", 10, Swapped(SeedRange(1, BucketSize), k))
(* one seed of each integrator failed to produce a row *)
MissingRows(j, k) ==
  RowsFor("lkh", 10, Without(SeedRange(1, BucketSize + 1), j))
    \o RowsFor("EdgeRand", 10, Without(SeedRange(1, BucketSize + 1), k))
(* both integrators reached the same length on every seed *)
SameLengths ==
  RowsFor("lkh", 10, SeedRange(1, BucketSize))
    \o List([i \in 1..BucketSize |->
               AuditRow("eil51", "EdgeRand", 10, i, TourLength("lkh", i))])
AuditLogs ==
  {Sequential(10, n_a, n_b) : n_a, n_b \in (BucketSize - 1)..(BucketSize + 1)}
  \cup {CompletionOrder(k) : k \in 1..(BucketSize - 1)}
  \cup {MissingRows(j, k) : j, k \in {1, 2, BucketSize + 1}}
  \cup {RowsFor("lkh", 20, SeedRange(1, BucketSize)) \o Sequential(10, BucketSize, n)
          \o RowsFor("EdgeRand", 20, SeedRange(1, BucketSize))
          \o RowsFor("eax", 20, SeedRange(1, 2)) :
        n \in (BucketSize - 1)..(BucketSize + 1)}
  \cup {SameLengths, << >>}

AnalyzeIdle ==
  /\ audit_log = << >> /\ an_phase = "idle" /\ an_pos = 0
  /\ an_calls = << >> /\ stats_results = << >>

SummaryIdle ==
  /\ boot_df = << >> /\ np_random = 0
  /\ ci_log = << >> /\ summary_log = << >>

StatIdle ==
  /\ lengths_a = << >> /\ lengths_b = << >>
  /\ wilcoxon_out = PNaN /\ boot_out = <<0, 0>>
  /\ stat = << >> /\ lib_calls = {}
  /\ deltas = << >>
  /\ SummaryIdle
  /\ AnalyzeIdle

Unbuilt ==
  /\ phase = "new"
  /\ hk_bounds = EmptyDict
  /\ optimal_lengths = EmptyDict
  /\ machine_info = [cpu |-> "", cpu_count |-> 0]
  /\ results = << >>
  /\ experiments = << >>
  /\ futures = << >>
  /\ df = << >>
  /\ jsonl = << >>
  /\ csv = << >>
  /\ runs = 0

(* one orchestrator, one run(): every configuration, the HK table with and *)
(* without the instance, the optimal table from its built-in fallback      *)
Init ==
  /\ cfg \in Configs
  /\ hk_file \in {EmptyDict, [i \in {"eil51"} |-> 426]}
  /\ opt_file = [exists |-> FALSE, table |-> EmptyDict]
  /\ scenario \in Scenarios
  /\ Unbuilt
  /\ StatIdle

Next ==
  \/ Construct
  \/ StartRun
  \/ \E i \in Tasks : Start(i)
  \/ \E i \in Tasks : Finish(i)
  \/ \E i \in Tasks : Collect(i)
  \/ Abort
  \/ Finalize
  \/ OpenLog
  \/ WriteLine
  \/ WriteCsv

Spec == Init /\ [][Next]_vars

(* one orchestrator, one run(), over every content of the bound tables:   *)
(* HK entry missing, positive, zero, negative; optimal table from the     *)
(* built-in fallback, from an empty file, from a file with the instance   *)
InitTrial ==
  /\ cfg \in {BaseCfg, [BaseCfg EXCEPT !.integrators = <<"eax">>]}
  /\ hk_file \in HkFiles
  /\ opt_file \in OptFiles
  /\ scenario = "mixed"
  /\ Unbuilt
  /\ StatIdle

SpecTrial == InitTrial /\ [][Next]_vars

NextRerun == Next \/ RunAgain \/ NewOrchestrator

(* Repeated run() invocations.  The starting point is the state in which   *)
(* the first run() of an orchestrator has just returned, its tasks having  *)
(* been collected in submission order (a state Spec reaches).              *)
FirstRunReturned ==
  /\ cfg = BaseCfg
  /\ hk_file = [i \in {"eil51"} |-> 426]
  /\ opt_file = [exists |-> FALSE, table |-> EmptyDict]
  /\ scenario = "mixed"
  /\ hk_bounds = hk_file
  /\ optimal_lengths = LoadOptimalLengths(opt_file)
  /\ machine_info = MachineSpecs
  /\ experiments = Experiments(cfg)
  /\ futures = [i \in DOMAIN experiments |->
                  [st |-> "collected", out |-> <<RunSingle(experiments[i])>>]]
  /\ results = [i \in DOMAIN experiments |-> futures[i].out[1].rec[1]]
  /\ df = FinalizeResults
  /\ jsonl = [k \in DOMAIN results |-> Dumps(results[k])]
  /\ csv = df
  /\ runs = 1
  /\ phase = "done"

InitRerun == FirstRunReturned /\ StatIdle

SpecRerun == InitRerun /\ [][NextRerun]_vars

InitStat ==
  /\ cfg = BaseCfg
  /\ hk_file = EmptyDict
  /\ opt_file = [exists |-> FALSE, table |-> EmptyDict]
  /\ scenario = "healthy"
  /\ Unbuilt
  /\ \E n \in 1..MaxN :
       /\ lengths_a \in SamplesA(n)
       /\ lengths_b \in SamplesB(n)
  /\ wilcoxon_out \in WilcoxonAnswers(lengths_a, lengths_b)
  /\ boot_out \in BootstrapAnswers(lengths_a, lengths_b)
  /\ stat = << >>
  /\ lib_calls = {}
  /\ deltas = << >>
  /\ SummaryIdle
  /\ AnalyzeIdle

InitDelta ==
  /\ cfg = BaseCfg
  /\ hk_file = EmptyDict
  /\ opt_file = [exists |-> FALSE, table |-> EmptyDict]
  /\ scenario = "healthy"
  /\ Unbuilt
  /\ lengths_a \in SamplesUpTo(MaxLen)
  /\ lengths_b \in SamplesUpTo(MaxLen)
  /\ wilcoxon_out = PNaN /\ boot_out = <<0, 0>>
  /\ stat = << >> /\ lib_calls = {}
  /\ deltas = << >>
  /\ SummaryIdle
  /\ AnalyzeIdle

SpecDelta == InitDelta /\ [][CliffsDelta]_vars

InitSummary ==
  /\ cfg = BaseCfg
  /\ hk_file = EmptyDict
  /\ opt_file = [exists |-> FALSE, table |-> EmptyDict]
  /\ scenario = "healthy"
  /\ Unbuilt
  /\ lengths_a = << >> /\ lengths_b = << >>
  /\ wilcoxon_out = PNaN /\ boot_out = <<0, 0>>
  /\ stat = << >> /\ lib_calls = {}
  /\ deltas = << >>
  /\ boot_df \in SummaryInputs
  /\ np_random = 0
  /\ ci_log = << >> /\ summary_log = << >>
  /\ AnalyzeIdle

NextSummary == BootstrapCI \/ Summarize \/ AmbientDraw

SpecSummary == InitSummary /\ [][NextSummary]_vars

InitAnalyze ==
  /\ cfg = BaseCfg
  /\ hk_file = EmptyDict
  /\ opt_file = [exists |-> FALSE, table |-> EmptyDict]
  /\ scenario = "healthy"
  /\ Unbuilt
  /\ lengths_a = << >> /\ lengths_b = << >>
  /\ wilcoxon_out = PNaN /\ boot_out = <<0, 0>>
  /\ stat = << >> /\ lib_calls = {}
  /\ deltas = << >>
  /\ SummaryIdle
  /\ audit_log \in AuditLogs
  /\ an_phase = "idle" /\ an_pos = 0
  /\ an_calls = << >> /\ stats_results = << >>

NextAnalyze == LoadLog \/ AnalyzeBucket \/ Report

SpecAnalyze == InitAnalyze /\ [][NextAnalyze]_vars

(* a grid of one task more than the pool has workers *)
InitPool ==
  /\ cfg = [BaseCfg EXCEPT !.seeds = SeedsUpTo(MaxWorkers + 1)]
  /\ hk_file = EmptyDict
  /\ opt_file = [exists |-> FALSE, table |-> EmptyDict]
  /\ scenario = "mixed"
  /\ Unbuilt
  /\ StatIdle

NextPool ==
  \/ Construct
  \/ StartRun
  \/ \E i \in Tasks : Start(i)
  \/ \E i \in Tasks : Finish(i)
  \/ \E i \in Tasks : Collect(i)
  \/ Finalize
  \/ OpenLog
  \/ WriteLine
  \/ WriteCsv

SpecPool == InitPool /\ [][NextPool]_vars

(* run() under fair scheduling: a free worker takes the next item, a     *)
(* started solve returns or raises, and the main thread goes on whenever *)
(* it can                                                                 *)
Fairness ==
  /\ WF_vars(Construct)
  /\ WF_vars(StartRun)
  /\ WF_vars(\E i \in Tasks : Start(i))
  /\ WF_vars(\E i \in Tasks : Finish(i))
  /\ WF_vars(\E i \in Tasks : Collect(i))
  /\ WF_vars(Abort)
  /\ WF_vars(Finalize)
  /\ WF_vars(OpenLog)
  /\ WF_vars(WriteLine)
  /\ WF_vars(WriteCsv)

SpecLive == Init /\ [][Next]_vars /\ Fairness

SpecStat == InitStat /\ [][Compare]_vars

---------------------------------------------------------------------------
(* Vocabulary of the properties *)

KeyOf(r) == <<r.instance, r.integrator, r.budget_s, r.seed>>

(* the configured Cartesian product *)
Grid(c) ==
  SeqToSet(c.instances) \X SeqToSet(c.integrators) \X SeqToSet(c.budgets)
    \X SeqToSet(c.seeds)

Finished(i) == futures[i].st \in {"done", "collected"}
OutcomeOf(i) == futures[i].out[1]

(* the records the current run() has appended to self.results *)
NumAppended ==
  Cardinality({i \in Tasks : futures[i].st = "collected" /\ OutcomeOf(i).exc = ""})
RunRecords == SubSeq(results, Len(results) - NumAppended + 1, Len(results))

(* dictionary order of the names the configurations use *)
NameRank(name) ==
  CASE name = "eax" -> 1 [] name = "eil51" -> 2 [] name = "ghost99" -> 3
    [] name = "lkh" -> 4 [] OTHER -> 5
KeyLess(k1, k2) ==
  LET a == <<NameRank(k1[1]), NameRank(k1[2]), k1[3], k1[4]>>
      b == <<NameRank(k2[1]), NameRank(k2[2]), k2[3], k2[4]>>
  IN  \E d \in 1..4 : a[d] < b[d] /\ \A c \in 1..(d - 1) : a[c] = b[c]
SortedByKey(recs) ==
  LET pos(i) == 1 + Cardinality({j \in DOMAIN recs :
                                   KeyLess(KeyOf(recs[j]), KeyOf(recs[i]))})
  IN  [q \in DOMAIN recs |-> recs[CHOOSE i \in DOMAIN recs : pos(i) = q]]

RunOver == phase \in {"finalized", "writing", "done"}

---------------------------------------------------------------------------
(* C1: after run() completes, the number of records collected and the     *)
(* number of DataFrame rows returned equal                                *)
(* |instances| x |integrators| x |budgets| x |seeds|.                     *)
C1_RowCountIsGridSize ==
  phase = "done" =>
    /\ Len(results) = TotalRuns(cfg)
    /\ Len(df) = TotalRuns(cfg)

(* C2: whatever the completion order, the keys of the records a run()     *)
(* collected are pairwise distinct, the set of keys is the configured     *)
(* Cartesian product, and sorting the records by key gives the sequence   *)
(* that sorting them in submission order gives.                           *)
C2_KeysAreTheGrid ==
  RunOver =>
    LET keys == [k \in DOMAIN RunRecords |-> KeyOf(RunRecords[k])]
    IN  /\ \A j, k \in DOMAIN keys : j # k => keys[j] # keys[k]
        /\ SeqToSet(keys) = Grid(cfg)
        /\ SortedByKey(RunRecords)
             = SortedByKey([i \in Tasks |-> OutcomeOf(i).rec[1]])

C2_Witness ==
  /\ phase = "done"
  /\ scenario = "mixed"
  /\ Len(results) = NumSeeds
  /\ results[1].seed > results[2].seed

(* C3: a task that fails at any step of _run_single is turned into a      *)
(* sentinel record: no exception leaves a task through future.result()    *)
(* and run() is never aborted.                                            *)
C3_NoExceptionLeavesATask ==
  /\ \A i \in Tasks : Finished(i) => OutcomeOf(i).exc = ""
  /\ phase \notin {"aborting", "aborted"}

(* C4: when solver.solve raises with message m, the trial yields exactly  *)
(* one record, with the trial's key, best_length = -1, final_gap_pct =    *)
(* -1.0, repair_path = "ERROR: m" and deviations that end with the        *)
(* failure text after the bound notes; the batch still has one record     *)
(* per experiment.                                                        *)
BoundNotes ==
  { "HK bound not computed; using optimal = 429",
    "HK bound not computed; using optimal = 0",
    "Optimal length missing; gap calculation invalid" }
SolveRaises(i) ==
  /\ IntegratorName(experiments[i]) \in BuildIntegrators
  /\ SolverOf(scenario, Seed(experiments[i])).solve = "raises"
C4_SolveFailureIsOneSentinelRecord ==
  \A i \in Tasks :
    (Finished(i) /\ SolveRaises(i)) =>
      LET m == SolverOf(scenario, Seed(experiments[i])).msg
          o == OutcomeOf(i)
          r == o.rec[1]
          n == Len(r.deviations)
      IN  /\ o.exc = ""
          /\ KeyOf(r) = experiments[i]
          /\ r.best_length = -1
          /\ REq(r.final_gap_pct, Frac(-1, 1))
          /\ r.repair_path = "ERROR: " \o m
          /\ n >= 1
          /\ r.deviations[n] = "Runtime error: " \o m
          /\ \A k \in 1..(n - 1) : r.deviations[k] \in BoundNotes
          /\ (~HasHk(Instance(experiments[i])) => n >= 2)
          /\ RunOver =>
               /\ Cardinality({k \in DOMAIN RunRecords :
                                 KeyOf(RunRecords[k]) = experiments[i]}) = 1
               /\ \E k \in DOMAIN RunRecords : RunRecords[k] = r
               /\ Len(RunRecords) = Len(experiments)

C4_Witness ==
  /\ phase = "done"
  /\ \E i \in Tasks : SolveRaises(i) /\ ~HasHk(Instance(experiments[i]))
  /\ \E k \in DOMAIN results : results[k].best_length = -1 /\ results[k].raw_trace = << >>
                                 /\ Len(results[k].deviations) = 2

(* C6: in every record _run_single produces, best_length = -1 implies     *)
(* final_gap_pct = -1.0, also when the solver returned an empty trace.    *)
C6_SentinelLengthHasSentinelGap ==
  \A i \in Tasks :
    (Finished(i) /\ OutcomeOf(i).exc = "") =>
      LET r == OutcomeOf(i).rec[1]
      IN  r.best_length = -1 => REq(r.final_gap_pct, Frac(-1, 1))

(* C7: after run() completes, the audit log has one line and the CSV one  *)
(* row, with the node count n, per trial that run attempted.               *)
C7_OneLineAndRowPerTrial ==
  phase = "done" =>
    /\ Len(jsonl) = Len(experiments)
    /\ Len(csv) = Len(experiments)
    /\ \A k \in DOMAIN csv : csv[k].n = TsplibDir[csv[k].instance]

(* C8: the engine never overwrites, truncates or deduplicates the log of  *)
(* an earlier run: a line that is in the log stays in the log.            *)
C8_LogKeepsItsLines ==
  [][\A k \in DOMAIN jsonl : \E j \in DOMAIN jsonl' : jsonl'[j] = jsonl[k]]_vars

(* C9: no worker step writes the log or the results list; a record enters *)
(* the results list (empty when the constructor creates it) only when the *)
(* orchestrator thread collects its future, and the log is written only   *)
(* after the pool has drained and every future has been collected.        *)
WorkerStep ==
  \E i \in Tasks :
    /\ futures[i].st \in {"queued", "running"}
    /\ futures'[i].st \in {"running", "done"}
    /\ futures'[i].st # futures[i].st
C9_LogWritesAreSerialized ==
  [][ /\ WorkerStep => (results' = results /\ jsonl' = jsonl /\ csv' = csv)
      /\ results' # results =>
           \/ phase = "new" /\ results' = << >>
           \/ \E i \in Tasks :
                /\ futures[i].st = "done" /\ futures'[i].st = "collected"
                /\ results' = Append(results, OutcomeOf(i).rec[1])
      /\ (jsonl' # jsonl \/ csv' # csv) =>
           /\ \A i \in Tasks : futures[i].st = "collected"
           /\ phase \in {"finalized", "writing"}
    ]_vars

C9_Witness ==
  /\ phase = "writing"
  /\ Len(jsonl) = NumSeeds
  /\ \A i \in Tasks : futures[i].st = "collected"

---------------------------------------------------------------------------
(* Properties of paired_comparison *)

Compared == stat # << >> /\ stat[1].exc = ""
Result == stat[1].res[1]
Constant(q) == \A i, j \in DOMAIN q : q[i] = q[j]
EqualConstants ==
  Constant(lengths_a) /\ Constant(lengths_b) /\ lengths_a[1] = lengths_b[1]
ZeroVarianceBranch == Constant(lengths_a) \/ Constant(lengths_b)
PBelow001(p) == p.kind = "p" /\ p.e >= 4
AbsAbove01(delta) ==
  (delta[1] >= 0 /\ 10 * delta[1] > delta[2]) \/ (delta[1] < 0 /\ -10 * delta[1] > delta[2])
Gate(r) ==
  /\ r.n_samples >= 30
  /\ PBelow001(r.p_value)
  /\ AbsAbove01(r.effect_size_cliffs_delta)

C10_EqualConstantsGiveNoEffect ==
  (stat # << >> /\ EqualConstants) =>
    /\ stat[1].exc = ""
    /\ Result.n_samples = Len(lengths_a)
    /\ Result.p_value = PValue(1, 0)
    /\ REq(Result.effect_size_cliffs_delta, Frac(0, 1))
    /\ Result.ci_95_lower = 0 /\ Result.ci_95_upper = 0
    /\ Result.protocol_compliant = FALSE
    /\ lib_calls = {}

C10_Witness ==
  /\ Compared
  /\ EqualConstants
  /\ Len(lengths_a) >= 30
  /\ Result.protocol_compliant = FALSE

(* C11: two internally constant samples whose constants differ give the   *)
(* perfect-separation result: p_value = 1e-15, |effect size| = 1.0,       *)
(* ci = (0, 0) and compliant = True, for every n >= 1.                    *)
DifferentConstants ==
  Constant(lengths_a) /\ Constant(lengths_b) /\ lengths_a[1] # lengths_b[1]
C11_DifferentConstantsGiveSeparation ==
  (stat # << >> /\ DifferentConstants) =>
    /\ stat[1].exc = ""
    /\ Result.n_samples = Len(lengths_a)
    /\ Result.p_value = PValue(1, 15)
    /\ Abs(Result.effect_size_cliffs_delta[1]) = Result.effect_size_cliffs_delta[2]
    /\ Result.ci_95_lower = 0 /\ Result.ci_95_upper = 0
    /\ Result.protocol_compliant = TRUE

C11_Witness ==
  /\ Compared
  /\ lengths_a = <<5, 5, 5>> /\ lengths_b = <<9, 9, 9>>
  /\ REq(Result.effect_size_cliffs_delta, Frac(1, 1))
  /\ Result.protocol_compliant

---------------------------------------------------------------------------
(* C12: a configuration with fewer than 5 seeds, or naming an instance    *)
(* whose file does not exist, makes the constructor raise: no trial is    *)
(* ever dispatched, no solver runs, no record is created and no artifact  *)
(* is written.                                                            *)
BadConfig ==
  \/ Len(cfg.seeds) < 5
  \/ \E i \in DOMAIN cfg.instances : cfg.instances[i] \notin DOMAIN TsplibDir
C12_ConfigErrorBeforeExecution ==
  (BadConfig /\ phase # "new") =>
    /\ phase = "config_error"
    /\ runs = 0
    /\ experiments = << >> /\ futures = << >>
    /\ results = << >> /\ df = << >>
    /\ jsonl = << >> /\ csv = << >>

C12_Witness ==
  /\ phase = "config_error"
  /\ Len(cfg.seeds) = 4
  /\ futures = << >> /\ jsonl = << >>

---------------------------------------------------------------------------
(* Properties of the gap computation *)

SolveReturns(i) ==
  /\ IntegratorName(experiments[i]) \in BuildIntegrators
  /\ SolverOf(scenario, Seed(experiments[i])).solve = "returns"
RecordOf(i) == OutcomeOf(i).rec[1]
(* the denominator and the numerator of the division a record's gap came from *)
GapDen(r) == r.final_gap_pct[2]
GapNum(r) == r.final_gap_pct[1]

(* C13: whatever the HK-bound and known-optimal tables hold for the       *)
(* instance (no entry, zero, a negative or a positive number), the        *)
(* denominator of every trial, and of every computed final_gap_pct, is    *)
(* strictly greater than 0.                                               *)
C13_DenominatorIsPositive ==
  \A i \in Tasks :
    /\ IntegratorName(experiments[i]) \in BuildIntegrators
         => GapDenominator(Instance(experiments[i])) > 0
    /\ (Finished(i) /\ OutcomeOf(i).exc = "") => GapDen(RecordOf(i)) > 0

C13_Witness ==
  /\ phase = "done"
  /\ "eil51" \in DOMAIN hk_bounds /\ hk_bounds["eil51"] = 0
  /\ \E k \in DOMAIN results :
       results[k].best_length = 430 /\ GapDen(results[k]) = 1

(* C14: the denominator is the HK bound whenever the HK table has an      *)
(* entry for the instance, otherwise the known-optimal length whenever    *)
(* the optimal table has an entry, otherwise 1; the gap of a successful   *)
(* trial is (best_length - denominator) / denominator x 100.              *)
DenominatorByPresence(instance) ==
  IF instance \in DOMAIN hk_bounds THEN hk_bounds[instance]
  ELSE IF instance \in DOMAIN optimal_lengths THEN optimal_lengths[instance]
  ELSE 1
C14_DenominatorByPresence ==
  \A i \in Tasks :
    (Finished(i) /\ SolveReturns(i)) =>
      LET r == RecordOf(i)
          den == DenominatorByPresence(Instance(experiments[i]))
      IN  /\ GapDen(r) = den
          /\ GapNum(r) = (r.best_length - den) * 100

(* C14 as amended: the value chosen is the HK entry when there is one,    *)
(* otherwise the known-optimal entry when there is one, otherwise 0; the  *)
(* denominator is that value when it is positive and 1 when it is not     *)
(* (a zero or negative HK entry is clamped to 1, the optimal table is not *)
(* consulted); the gap of a successful trial is                           *)
(* (best_length - denominator) / denominator x 100.                       *)
DenominatorClamped(instance) ==
  LET chosen == IF instance \in DOMAIN hk_bounds THEN hk_bounds[instance]
                ELSE IF instance \in DOMAIN optimal_lengths
                       THEN optimal_lengths[instance]
                ELSE 0
  IN  IF chosen > 0 THEN chosen ELSE 1
C14_DenominatorByPresenceClamped ==
  \A i \in Tasks :
    (Finished(i) /\ SolveReturns(i)) =>
      LET r == RecordOf(i)
          den == DenominatorClamped(Instance(experiments[i]))
      IN  /\ GapDen(r) = den
          /\ GapNum(r) = (r.best_length - den) * 100

C14_Witness ==
  /\ phase = "done"
  /\ "eil51" \in DOMAIN hk_bounds /\ hk_bounds["eil51"] = -3
  /\ "eil51" \in DOMAIN optimal_lengths /\ optimal_lengths["eil51"] = 429
  /\ \E k \in DOMAIN results :
       results[k].best_length = 451 /\ results[k].final_gap_pct = Frac(45000, 1)

---------------------------------------------------------------------------
(* C15: cliffs_delta(x, y) = -cliffs_delta(y, x) for all non-empty x and  *)
(* y, of equal or different lengths, with or without ties; hence          *)
(* cliffs_delta(x, x) = 0.                                                *)
Neg(p) == Frac(-p[1], p[2])
C15_CliffsDeltaAntisymmetric ==
  deltas # << >> =>
    /\ REq(deltas[1].xy, Neg(deltas[1].yx))
    /\ deltas[1].xy[2] > 0 /\ deltas[1].yx[2] > 0
    /\ REq(deltas[1].xx, Frac(0, 1))

C15_Witness ==
  /\ deltas # << >>
  /\ Len(lengths_a) # Len(lengths_b)
  /\ \E i \in DOMAIN lengths_a : \E j \in DOMAIN lengths_b : lengths_a[i] = lengths_b[j]
  /\ deltas[1].xy[1] > 0
  /\ deltas[1].yx[1] < 0

---------------------------------------------------------------------------
(* C16: analysis.bootstrap_ci and compute_summary_statistics are           *)
(* deterministic: every call on the same data returns the same confidence *)
(* intervals, whatever was drawn from other generators between the calls. *)
C16_SummaryBootstrapIsDeterministic ==
  /\ \A i, j \in DOMAIN ci_log : ci_log[i].ci = ci_log[j].ci
  /\ \A i, j \in DOMAIN summary_log : summary_log[i].rows = summary_log[j].rows

C16_Witness ==
  /\ Len(ci_log) >= 2 /\ ci_log[1].at # ci_log[2].at
  /\ ci_log[1].ci[1] # ci_log[1].ci[2]
  /\ Len(summary_log) >= 2 /\ summary_log[1].at # summary_log[2].at
  /\ Len(summary_log[1].rows) = 3

---------------------------------------------------------------------------
(* C17: re-parsing the log line of a record gives the record back: the    *)
(* same field names and the same values, raw_trace checkpoints,           *)
(* deviations, machine_info and failure sentinels included.               *)
C17_LogLineRoundTrips ==
  phase \in {"writing", "done"} =>
    \A k \in DOMAIN jsonl :
      /\ DOMAIN Loads(jsonl[k]) = DOMAIN results[k]
      /\ Loads(jsonl[k]) = results[k]

---------------------------------------------------------------------------
(* C18: the machine descriptor and the two bound tables are loaded by the *)
(* constructor, before dispatch, and no later step (no task, succeeding   *)
(* or failing) changes them; every record of a run carries the same       *)
(* machine_info.                                                          *)
Built == phase \notin {"new", "config_error"}
C18_SharedTablesAreReadOnly ==
  /\ [](Built =>
          /\ machine_info = MachineSpecs
          /\ hk_bounds = hk_file
          /\ optimal_lengths = LoadOptimalLengths(opt_file)
          /\ \A k \in DOMAIN results : results[k].machine_info = machine_info
          /\ \A i \in Tasks :
               (Finished(i) /\ OutcomeOf(i).exc = "")
                 => RecordOf(i).machine_info = machine_info)
  /\ [][Built => /\ machine_info' = machine_info
                 /\ hk_bounds' = hk_bounds
                 /\ optimal_lengths' = optimal_lengths]_vars

C18_Witness ==
  /\ phase = "done"
  /\ hk_bounds # EmptyDict
  /\ \E j, k \in DOMAIN results :
       /\ results[j].best_length = -1 /\ results[j].raw_trace = << >>
       /\ results[k].best_length = 430
       /\ results[j].machine_info = results[k].machine_info

---------------------------------------------------------------------------
(* C19: when solver.solve returned and get_last_run_diagnostics raises or *)
(* answers without the expected fields (a dict without the keys, an       *)
(* object instead of a mapping, None), the trial is not failed: its       *)
(* record keeps the returned trace, the best_length of its first          *)
(* checkpoint and the computed gap, has no runtime-error deviation, and   *)
(* carries cycles_explored = 0 and repair_path = the integrator's name.   *)
DiagnosticsUnusable(i) ==
  /\ SolveReturns(i)
  /\ SolverOf(scenario, Seed(experiments[i])).diag
       \in {"raises", "object", "none", "dict_empty"}
C19_DiagnosticsFailureKeepsTheTrial ==
  \A i \in Tasks :
    (Finished(i) /\ DiagnosticsUnusable(i)) =>
      LET b == SolverOf(scenario, Seed(experiments[i]))
          den == GapDenominator(Instance(experiments[i]))
          o == OutcomeOf(i)
          r == o.rec[1]
      IN  /\ o.exc = ""
          /\ KeyOf(r) = experiments[i]
          /\ r.raw_trace = b.trace
          /\ b.trace # << >> =>
               /\ r.best_length = b.trace[1].length
               /\ r.best_length # -1
               /\ r.final_gap_pct = Frac((b.trace[1].length - den) * 100, den)
          /\ \A k \in DOMAIN r.deviations : r.deviations[k] \in BoundNotes
          /\ r.cycles_explored = 0
          /\ r.repair_path = IntegratorName(experiments[i])

C19_Witness ==
  /\ phase = "done"
  /\ \E i \in Tasks :
       /\ SolverOf(scenario, Seed(experiments[i])).diag = "raises"
       /\ RecordOf(i).best_length = 426
       /\ RecordOf(i).repair_path = "lkh"
       /\ RecordOf(i).cycles_explored = 0

---------------------------------------------------------------------------
(* C20: a missing bound is never an error: every trial of an instance     *)
(* without an HK entry is executed and yields a record whose deviations   *)
(* contain the missing-bound note, whether the trial succeeds or fails;   *)
(* with neither an HK nor a known-optimal entry a successful trial's gap  *)
(* is the number computed with the denominator 1.                         *)
MissingHkNote(instance) ==
  "HK bound not computed; using optimal = " \o ToString(OptimalOf(instance))
C20_MissingBoundIsNeverAnError ==
  \A i \in Tasks :
    (Finished(i) /\ ~HasHk(Instance(experiments[i]))) =>
      LET instance == Instance(experiments[i])
          o == OutcomeOf(i)
          r == o.rec[1]
      IN  /\ o.exc = ""
          /\ \E k \in DOMAIN r.deviations : r.deviations[k] = MissingHkNote(instance)
          /\ (instance \notin DOMAIN optimal_lengths /\ r.raw_trace # << >>) =>
               /\ GapDen(r) = 1
               /\ GapNum(r) = (r.best_length - 1) * 100

---------------------------------------------------------------------------
(* C21: in every record, success or failure, hk_bound is the reference    *)
(* bound the trial's gap denominator was: the HK bound when present, the  *)
(* known-optimal fallback when that was used, 1 when neither was there.   *)
C21_HkBoundFieldIsTheDenominator ==
  \A i \in Tasks :
    (Finished(i) /\ OutcomeOf(i).exc = "") =>
      RecordOf(i).hk_bound = DenominatorClamped(Instance(experiments[i]))

---------------------------------------------------------------------------
(* C22: unless both samples are internally constant, paired_comparison    *)
(* takes the general case, also when exactly one sample is constant: the  *)
(* p-value is the signed-rank test's, the effect size cliffs_delta's, the *)
(* CI the bootstrap's and compliance the three-criterion gate.            *)
BothConstant == Constant(lengths_a) /\ Constant(lengths_b)
C22_GeneralCaseUnlessBothConstant ==
  (stat # << >> /\ ~BothConstant) =>
    /\ "wilcoxon" \in lib_calls
    /\ Compared =>
         /\ lib_calls = {"wilcoxon", "cliffs_delta", "bootstrap_ci"}
         /\ Result.p_value = wilcoxon_out
         /\ Result.effect_size_cliffs_delta = cliffs_delta(lengths_a, lengths_b)
         /\ Result.ci_95_lower = boot_out[1] /\ Result.ci_95_upper = boot_out[2]
         /\ Result.protocol_compliant <=> Gate(Result)

---------------------------------------------------------------------------
(* C23: the effect size of every result is cliffs_delta(lengths_a,        *)
(* lengths_b): it lies in [-1, 1], is +1 when every a-value is below      *)
(* every b-value and -1 when every a-value is above every b-value, in     *)
(* the degenerate cases as in the general case.                           *)
AllBelow(x, y) == \A i \in DOMAIN x : \A j \in DOMAIN y : x[i] < y[j]
C23_EffectSizeIsCliffsDelta ==
  Compared =>
    LET d == Result.effect_size_cliffs_delta
    IN  /\ REq(d, cliffs_delta(lengths_a, lengths_b))
        /\ ~RLt(d, Frac(-1, 1)) /\ ~RLt(Frac(1, 1), d)
        /\ AllBelow(lengths_a, lengths_b) => REq(d, Frac(1, 1))
        /\ AllBelow(lengths_b, lengths_a) => REq(d, Frac(-1, 1))

(* C24: whenever analyze_results hands two sequences to paired_comparison, *)
(* they are paired by seed: at every index the two rows are results of the *)
(* same seed on the same instance and budget, whatever the order of the    *)
(* rows in the log.                                                         *)
C24_SequencesArePairedBySeed ==
  \A c \in DOMAIN an_calls :
    LET a == an_calls[c].rows_a
        b == an_calls[c].rows_b
    IN  /\ Len(a) = Len(b)
        /\ \A i \in DOMAIN a :
             /\ a[i].seed = b[i].seed
             /\ a[i].instance = b[i].instance
             /\ a[i].budget_s = b[i].budget_s

(* Claim vocabulary: the buckets of the log, counted row by row *)
CountOf(key, integrator) ==
  Cardinality({k \in DOMAIN audit_log :
                 /\ audit_log[k].instance = key[1]
                 /\ audit_log[k].budget_s = key[2]
                 /\ audit_log[k].integrator = integrator})
Buckets == {<<audit_log[k].instance, audit_log[k].budget_s>> : k \in DOMAIN audit_log}
ThirtyEach(key) == CountOf(key, "lkh") = 30 /\ CountOf(key, "EdgeRand") = 30
ResultsFor(key) ==
  {q \in DOMAIN stats_results :
     /\ stats_results[q].instance = key[1] \o "_lkh_vs_EdgeRand"
     /\ stats_results[q].integrator_a = "lkh_" \o ToString(key[2]) \o "s"}
CallsFor(key) ==
  {c \in DOMAIN an_calls :
     an_calls[c].instance = key[1] /\ an_calls[c].budget_s = key[2]}
Sentinels(rows) == {i \in DOMAIN rows : rows[i].best_length = -1}

StateRank(s) ==
  CASE s = "queued" -> 0 [] s = "running" -> 1 [] s = "done" -> 2 [] OTHER -> 3

(* C25: the pool is bounded and tasks are atomic: each TrialSpec of the     *)
(* grid is submitted exactly once, at most MaxWorkers (6) trials execute at *)
(* any moment of run(), and a started trial goes on to its one outcome (a   *)
(* record) without being suspended, restarted or requeued.                  *)
C25_BoundedPoolAtomicTasks ==
  /\ [](/\ Cardinality(InState("running")) <= MaxWorkers
        /\ Tasks # {} =>
             /\ Tasks = DOMAIN experiments
             /\ {experiments[i] : i \in Tasks} = Grid(cfg)
             /\ Cardinality(Tasks) = Cardinality(Grid(cfg))
        /\ \A i \in Tasks :
             /\ Finished(i) <=> Len(futures[i].out) = 1
             /\ futures[i].st \in {"queued", "running"} <=> futures[i].out = << >>)
  /\ [][ \A i \in Tasks \cap DOMAIN futures' :
           (runs' = runs) =>
             /\ StateRank(futures'[i].st) - StateRank(futures[i].st) \in {0, 1}
             /\ Finished(i) => futures'[i].out = futures[i].out
             /\ experiments'[i] = experiments[i] ]_vars

(* the pool is full, and a trial submitted later was collected while an    *)
(* earlier one is still running                                            *)
C25_Witness ==
  /\ Cardinality(InState("running")) = MaxWorkers
  /\ \E i, j \in Tasks :
       i < j /\ futures[i].st = "running" /\ futures[j].st = "collected"

(* Claim vocabulary: the solver's answer behind a record, and whether it   *)
(* carried a checkpoint                                                     *)
AnswerOf(r) == SolverOf(scenario, r.seed)
HasCheckpoint(r) == AnswerOf(r).solve = "returns" /\ AnswerOf(r).trace # << >>

(* C26: in every record, compute_cost_usd x 3600 = wall_time_s x            *)
(* aws_hourly_rate and time_to_best_s = wall_time_s; wall_time_s is the     *)
(* elapsed time of the first trace checkpoint (and best_length its length)  *)
(* when the solver returned a trace, and budget_s for a failed trial or an  *)
(* empty trace; with an hourly rate of 0 every cost is 0.                   *)
C26_CostAccounting ==
  \A i \in Tasks :
    (Finished(i) /\ OutcomeOf(i).exc = "") =>
      LET r == RecordOf(i)
          rate == cfg.aws_hourly_rate
          cost == r.compute_cost_usd
      IN  /\ cost[1] * rate[2] * 3600 = r.wall_time_s * rate[1] * cost[2]
          /\ cost[2] # 0
          /\ r.time_to_best_s = r.wall_time_s
          /\ IF HasCheckpoint(r)
               THEN /\ r.wall_time_s = AnswerOf(r).trace[1].elapsed
                    /\ r.best_length = AnswerOf(r).trace[1].length
               ELSE /\ r.wall_time_s = r.budget_s
                    /\ r.best_length = -1
          /\ rate[1] = 0 => cost[1] = 0

(* a checkpoint at 3 s of a 10 s budget is charged 3 s, a failed trial and *)
(* one with an empty trace the whole budget, at 0.34 USD per hour          *)
C26_Witness ==
  /\ phase = "done"
  /\ cfg.aws_hourly_rate = Rate034
  /\ \E j, k, l \in DOMAIN results :
       /\ results[j].wall_time_s = 3 /\ results[j].best_length = 430
       /\ REq(results[j].compute_cost_usd, Frac(3 * 34, 360000))
       /\ results[k].raw_trace = << >> /\ results[k].repair_path = "lkh"
       /\ results[k].wall_time_s = 10
       /\ results[l].repair_path = "ERROR: LKH failed: core dumped"
       /\ REq(results[l].compute_cost_usd, Frac(10 * 34, 360000))

(* Claim vocabulary: how many rows of an output carry a trial's key *)
RowsWithKey(out, g) == Cardinality({k \in DOMAIN out : KeyOf(out[k]) = g})

(* C27: every invocation of run() on the same object returns and persists *)
(* exactly one record per TrialSpec of the grid: whenever a run() has      *)
(* finished, the DataFrame, the CSV and the audit log each hold every      *)
(* trial of the grid once, however many invocations came before.           *)
C27_EachRunHoldsTheGridOnce ==
  phase = "done" =>
    \A g \in Grid(cfg) :
      /\ RowsWithKey(df, g) = 1
      /\ RowsWithKey(csv, g) = 1
      /\ RowsWithKey(jsonl, g) = 1

(* Claim vocabulary: run() has returned with every trial of the grid     *)
(* recorded and both artifacts written                                    *)
RunComplete ==
  /\ phase = "done"
  /\ {KeyOf(results[k]) : k \in DOMAIN results} = Grid(cfg)
  /\ {KeyOf(jsonl[k]) : k \in DOMAIN jsonl} = Grid(cfg)
  /\ {KeyOf(csv[k]) : k \in DOMAIN csv} = Grid(cfg)

(* C28: when every solve invocation returns or raises and the workers    *)
(* are scheduled fairly, a run() that has dispatched its tasks           *)
(* eventually terminates with every trial recorded and both artifacts    *)
(* written; and nothing is persisted before every dispatched task has    *)
(* been waited for.                                                       *)
C28_RunTerminatesComplete ==
  /\ (phase = "collecting") ~> RunComplete
  /\ [](phase \in {"finalized", "writing", "done"} =>
          \A i \in Tasks : futures[i].st = "collected")

(* Claim vocabulary: the (instance, integrator) pairs of a DataFrame, the *)
(* records of a pair, and the median as the middle of the order statistics *)
PairOf(r) == <<r.instance, r.integrator>>
Pairs(frame) == {PairOf(frame[k]) : k \in DOMAIN frame}
RecordsOf(frame, p) == SelectSeq(frame, LAMBDA r : PairOf(r) = p)
Kth(xs, k) ==
  CHOOSE x \in SeqToSet(xs) :
    /\ Cardinality({i \in DOMAIN xs : xs[i] < x}) < k
    /\ k <= Cardinality({i \in DOMAIN xs : xs[i] <= x})
MedianOf(xs) ==
  Frac(Kth(xs, (Len(xs) + 1) \div 2) + Kth(xs, (Len(xs) \div 2) + 1), 2)

(* C29: compute_summary_statistics emits exactly one row per distinct     *)
(* (instance, integrator) pair of its input, with n_runs the number of    *)
(* input records of the pair (budgets and seeds pooled), and the medians  *)
(* and CIs taken over all of those records, sentinel records (gap -1)     *)
(* included.                                                              *)
C29_OneSummaryRowPerPair ==
  \A c \in DOMAIN summary_log :
    LET rows == summary_log[c].rows
    IN  /\ Len(rows) = Cardinality(Pairs(boot_df))
        /\ {PairOf(rows[q]) : q \in DOMAIN rows} = Pairs(boot_df)
        /\ \A q \in DOMAIN rows :
             LET recs == RecordsOf(boot_df, PairOf(rows[q]))
                 gaps == List([k \in DOMAIN recs |-> recs[k].final_gap_pct])
                 costs == List([k \in DOMAIN recs |-> recs[k].compute_cost_usd])
             IN  /\ rows[q].n_runs = Len(recs)
                 /\ REq(rows[q].median_gap, MedianOf(gaps))
                 /\ REq(rows[q].median_cost, MedianOf(costs))
                 /\ rows[q].gap_ci_95 = bootstrap_ci(gaps)
                 /\ rows[q].cost_ci_95 = bootstrap_ci(costs)

(* two pairs summarised; one of them has three records, two of them       *)
(* sentinels, and its median gap is the sentinel                          *)
C29_Witness ==
  \E c \in DOMAIN summary_log :
    LET rows == summary_log[c].rows
    IN  /\ Len(rows) = 2
        /\ \E q \in DOMAIN rows :
             /\ rows[q].n_runs = 3
             /\ REq(rows[q].median_gap, Frac(-1, 1))

====
